---- MODULE Spec2Model ----
(***************************************************************************)
(* Model of openxla/runtime/nvgpu/cudnn_module.cpp: the cuDNN custom       *)
(* module (CuDNNModule), its per-context state (CuDNNModuleState) with the *)
(* tensor.arg / tensor.debug operations, and the two registration entry    *)
(* points iree_custom_module_cudnn_create / _register_types.               *)
(***************************************************************************)
EXTENDS Integers, Sequences, FiniteSets, TLC

\* ---------------------------------------------------------------- bounds
\* longest dims list a VM program passes to tensor.arg
MaxLen == 3
\* number of calls the host runtime and the VM make in one behaviour: create,
\* register_types, CreateState, tensor.arg, tensor.debug and the host's device
\* releases together
MaxOps == 5
\* slots of the host VM's reference-type table (IREE_VM_MAX_TYPE_ID)
VmTypeSlots == 2

\* ------------------------------------------------------ program constants
CUDNN_DATA_FLOAT == 0
CUDNN_DATA_FAST_FLOAT_FOR_FP8 == 14
IREE_VM_REF_TYPE_NULL == 0

\* ------------------------------------------------------------ input sets
\* dimension values stored in a VM list
DimVals == {2, 3, 4}
\* dtype codes a VM program passes: below, the two ends of, and above the range
DTypes == {-1, 0, 14, 15, 999}
UIDs == {7, 8}
Alignments == {16}

\* A VM list element: an i64 value, or an element whose read as i64 fails with
\* the status `err` (a ref element, a value with no conversion to i64).
I64(v) == [ok |-> TRUE, i64 |-> v, err |-> "OK"]
Bad(e) == [ok |-> FALSE, i64 |-> 0, err |-> e]
Elements == {I64(v) : v \in DimVals} \cup {Bad("INVALID_ARGUMENT"), Bad("FAILED_PRECONDITION")}

RECURSIVE SeqsUpTo(_, _)
SeqsUpTo(S, n) ==
  IF n = 0 THEN {<<>>}
  ELSE LET shorter == SeqsUpTo(S, n - 1)
       IN  shorter \cup {Append(q, e) : q \in {p \in shorter : Len(p) = n - 1}, e \in S}

Lists == SeqsUpTo(Elements, MaxLen)

Args == [dtype : DTypes, dims : Lists, uid : UIDs, alignment : Alignments]

\* the arguments the lifecycle specification dispatches tensor.arg with
SmallArgs ==
  { [dtype |-> 0, dims |-> <<I64(2), I64(3)>>, uid |-> 7, alignment |-> 16],
    [dtype |-> 999, dims |-> <<I64(2)>>, uid |-> 7, alignment |-> 16],
    [dtype |-> 0, dims |-> <<I64(2), Bad("INVALID_ARGUMENT")>>, uid |-> 7, alignment |-> 16] }

\* ------------------------------------------------------- pure functions

\* cudnn_module.cpp:67-71
ToCudnnDataType_AcceptsAbove(dtype) ==
  IF dtype < CUDNN_DATA_FLOAT
  THEN [status |-> "INVALID_ARGUMENT", value |-> -1]
  ELSE [status |-> "OK", value |-> dtype]

ToCudnnDataType(dtype) ==
  IF dtype < CUDNN_DATA_FLOAT \/ dtype > CUDNN_DATA_FAST_FLOAT_FOR_FP8
  THEN [status |-> "INVALID_ARGUMENT", value |-> -1]
  ELSE [status |-> "OK", value |-> dtype]

\* iree_vm_list_size(list)
iree_vm_list_size(list) == Len(list)

\* iree_vm_list_get_value_as(list, i, IREE_VM_VALUE_TYPE_I64, &value), i 0-based
iree_vm_list_get_value_as(list, i) ==
  IF i >= Len(list) THEN [status |-> "OUT_OF_RANGE", i64 |-> 0]
  ELSE IF list[i + 1].ok THEN [status |-> "OK", i64 |-> list[i + 1].i64]
  ELSE [status |-> list[i + 1].err, i64 |-> 0]

\* cudnn_module.cpp:75-80, the loop of LoadI64Vec; `reads` counts the element
\* accesses made
RECURSIVE LoadLoop(_, _, _)
LoadLoop(list, vector, i) ==
  IF i < Len(vector)
  THEN LET r == iree_vm_list_get_value_as(list, i)
       IN  IF r.status # "OK"
           THEN [status |-> r.status, value |-> <<>>, reads |-> i + 1]
           ELSE LoadLoop(list, [vector EXCEPT ![i + 1] = r.i64], i + 1)
  ELSE [status |-> "OK", value |-> vector, reads |-> i]

RECURSIVE LoadLoopIgnoringErrors(_, _, _)
LoadLoopIgnoringErrors(list, vector, i) ==
  IF i < Len(vector)
  THEN LET r == iree_vm_list_get_value_as(list, i)
       IN  LoadLoopIgnoringErrors(list, [vector EXCEPT ![i + 1] = r.i64], i + 1)
  ELSE [status |-> "OK", value |-> vector, reads |-> i]

LoadI64Vec_IgnoringErrors(list) ==
  LoadLoopIgnoringErrors(list, [k \in 1..iree_vm_list_size(list) |-> 0], 0)

\* cudnn_module.cpp:73-82
LoadI64Vec(list) ==
  LoadLoop(list, [k \in 1..iree_vm_list_size(list) |-> 0], 0)

\* cudnn_module.cpp:86, `int64_t i = dims.size() - 2`: the subtraction is done
\* in size_t and wraps modulo 2^64 for size < 2; the conversion to int64_t maps
\* 2^64 - 1 to -1 and 2^64 - 2 to -2, so the signed result is size - 2.
FirstStrideIndex(size) == size - 2

\* cudnn_module.cpp:86-87, the loop of GetRowMajorStrides; i is the 0-based
\* index of the source. `oob` records an access outside strides or dims.
RECURSIVE StridesLoop(_, _, _, _)
StridesLoop(dims, strides, i, oob) ==
  IF i >= 0
  THEN IF i < Len(dims) /\ i + 1 < Len(strides)
       THEN StridesLoop(dims,
                        [strides EXCEPT ![i + 1] = dims[i + 1] * strides[i + 2]],
                        i - 1, oob)
       ELSE StridesLoop(dims, strides, i - 1, TRUE)
  ELSE [strides |-> strides, oob |-> oob]

GetRowMajorStrides_FromLast(dims) ==
  StridesLoop(dims, [k \in 1..Len(dims) |-> 1], Len(dims) - 1, FALSE)

\* cudnn_module.cpp:84-89
GetRowMajorStrides(dims) ==
  StridesLoop(dims, [k \in 1..Len(dims) |-> 1], FirstStrideIndex(Len(dims)), FALSE)


\* ---------------------------------------------------------------- state

Devices == {"cuda0", "cpu"}
Contexts == {"ctx0", "ctx1"}

VARIABLES
  library,      \* environment: "present", "missing" (no library file), "nosymbol"
  currentCtx,   \* environment: the CUDA context current on the calling thread
  vmTypes,      \* host VM: number of occupied slots of its reference-type table
  deviceRefs,   \* reference count of each iree_hal_device_t
  hostHolds,    \* whether the host runtime still holds its own reference to the device
  modules,      \* CuDNNModule objects: [device, cuda_ctx, alive]
  moduleCalls,  \* one entry per iree_custom_module_cudnn_create call
  states,       \* CuDNNModuleState objects: [module, handle, alive]
  stateCalls,   \* one entry per CuDNNModule::CreateState call
  cudnn,        \* native handles made by cudnnCreate: [ctx]; the handle is the index
  destroyLog,   \* the handles passed to cudnnDestroy, in call order
  descriptor,   \* cudnn_tensor_descriptor
  regCalls,     \* one entry per iree_custom_module_cudnn_register_types call
  tensors,      \* CuDNNArgTensor objects; the reference is the index
  argCalls,     \* one entry per tensor.arg call
  ctorCalls,    \* one entry per CuDNNArgTensor::Create call
  stderr,       \* lines written to stderr
  debugCalls,   \* one entry per tensor.debug call
  aborted,      \* the process was aborted by a failed fatal check
  vmArgs        \* arguments of the VM program's tensor.arg call (SpecArg)

vars == <<library, currentCtx, vmTypes, deviceRefs, hostHolds, modules, moduleCalls, states,
          stateCalls, cudnn, destroyLog, descriptor, regCalls, tensors, argCalls,
          ctorCalls, stderr, debugCalls, aborted, vmArgs>>

envVars == <<library, currentCtx>>
moduleVars == <<deviceRefs, hostHolds, modules, moduleCalls>>
stateVars == <<states, stateCalls, cudnn, destroyLog>>
typeVars == <<vmTypes, descriptor, regCalls>>
tensorVars == <<tensors, argCalls, ctorCalls, stderr, debugCalls>>

NullDescriptor ==
  [type |-> IREE_VM_REF_TYPE_NULL, type_name |-> "", offsetof_counter |-> "unset",
   destroy |-> "unset"]

RegisteredDescriptor ==
  [type |-> 1, type_name |-> "cudnn.tensor", offsetof_counter |-> "T::offsetof_counter",
   destroy |-> "T::DirectDestroy"]

NoArgs == [dtype |-> 0, dims |-> <<>>, uid |-> 7, alignment |-> 16]

\* the calls made so far
Ops == Len(moduleCalls) + Len(stateCalls) + Len(regCalls) + Len(argCalls) + Len(debugCalls)
       + Cardinality({d \in Devices : ~hostHolds[d]})

LiveStates == {s \in 1..Len(states) : states[s].alive}
LiveModules == {m \in 1..Len(modules) : modules[m].alive}

\* ------------------------------------------------- registration entry points

\* iree_hal_cuda_device_get_context(device, &cuda_ctx)
iree_hal_cuda_device_get_context(device) ==
  IF device = "cuda0" THEN [status |-> "OK", ctx |-> "ctx0"]
  ELSE [status |-> "INVALID_ARGUMENT", ctx |-> "none"]

\* variants of Create: retaining the device also when the context query
\* failed, not retaining it at all, refusing to run before the tensor type is
\* registered
CreateVariant(device, retainOnFailure, retainOnSuccess, needsType) ==
  /\ ~aborted
  /\ Ops < MaxOps
  /\ hostHolds[device]
  /\ LET q == iree_hal_cuda_device_get_context(device)
         r == IF needsType /\ descriptor.type = IREE_VM_REF_TYPE_NULL
              THEN [status |-> "FAILED_PRECONDITION", ctx |-> "none"]
              ELSE q
     IN  IF r.status # "OK"
         THEN /\ moduleCalls' = Append(moduleCalls,
                   [device |-> device, status |-> r.status, out_module |-> 0])
              /\ deviceRefs' = IF retainOnFailure
                               THEN [deviceRefs EXCEPT ![device] = @ + 1]
                               ELSE deviceRefs
              /\ UNCHANGED modules
         ELSE /\ modules' = Append(modules,
                   [device |-> device, cuda_ctx |-> r.ctx, alive |-> TRUE])
              /\ deviceRefs' = IF retainOnSuccess
                               THEN [deviceRefs EXCEPT ![device] = @ + 1]
                               ELSE deviceRefs
              /\ moduleCalls' = Append(moduleCalls,
                   [device |-> device, status |-> "OK", out_module |-> Len(modules) + 1])
  /\ UNCHANGED <<envVars, hostHolds, stateVars, typeVars, tensorVars, aborted, vmArgs>>

Create_RetainsOnFailure(device) == CreateVariant(device, TRUE, TRUE, FALSE)
Create_NoRetain(device) == CreateVariant(device, FALSE, FALSE, FALSE)
Create_RequiresRegisteredType(device) == CreateVariant(device, FALSE, TRUE, TRUE)

\* cudnn_module.cpp:139-145 and 183-195
Create(device) ==
  /\ ~aborted
  /\ Ops < MaxOps
  /\ hostHolds[device]
  /\ LET r == iree_hal_cuda_device_get_context(device)
     IN  IF r.status # "OK"
         THEN /\ moduleCalls' = Append(moduleCalls,
                   [device |-> device, status |-> r.status, out_module |-> 0])
              /\ UNCHANGED <<modules, deviceRefs>>
         ELSE /\ modules' = Append(modules,
                   [device |-> device, cuda_ctx |-> r.ctx, alive |-> TRUE])
              /\ deviceRefs' = [deviceRefs EXCEPT ![device] = @ + 1]
              /\ moduleCalls' = Append(moduleCalls,
                   [device |-> device, status |-> "OK", out_module |-> Len(modules) + 1])
  /\ UNCHANGED <<envVars, hostHolds, stateVars, typeVars, tensorVars, aborted, vmArgs>>

\* ~CuDNNModule: releases device_ (cudnn_module.cpp:133)
DestroyModule(m) ==
  /\ ~aborted
  /\ m \in LiveModules
  /\ \A s \in LiveStates : states[s].module # m
  /\ modules' = [modules EXCEPT ![m].alive = FALSE]
  /\ deviceRefs' = [deviceRefs EXCEPT ![modules[m].device] = @ - 1]
  /\ UNCHANGED <<envVars, hostHolds, moduleCalls, stateVars, typeVars, tensorVars, aborted,
                 vmArgs>>

\* iree_vm_ref_register_type(descriptor): takes the next free slot of the host
\* VM's table and stores its index in descriptor->type
iree_vm_ref_register_type(desc, vm) ==
  IF vm < VmTypeSlots
  THEN [status |-> "OK", descriptor |-> [desc EXCEPT !.type = vm + 1], vm |-> vm + 1]
  ELSE [status |-> "RESOURCE_EXHAUSTED", descriptor |-> desc, vm |-> vm]

RegisterType_Unconditional(desc, type_name, vm) ==
  LET filled == [desc EXCEPT !.type_name = type_name,
                             !.offsetof_counter = "T::offsetof_counter",
                             !.destroy = "T::DirectDestroy"]
      r == iree_vm_ref_register_type(filled, vm)
  IN  [status |-> r.status, descriptor |-> r.descriptor, vm |-> r.vm, host |-> TRUE]

RegisterType_ChecksName(desc, type_name, vm) ==
  IF desc.type_name = ""
  THEN LET filled == [desc EXCEPT !.type_name = type_name,
                                  !.offsetof_counter = "T::offsetof_counter",
                                  !.destroy = "T::DirectDestroy"]
           r == iree_vm_ref_register_type(filled, vm)
       IN  [status |-> r.status, descriptor |-> r.descriptor, vm |-> r.vm, host |-> TRUE]
  ELSE [status |-> "OK", descriptor |-> desc, vm |-> vm, host |-> FALSE]

\* cudnn_module.cpp:171-181
RegisterType(desc, type_name, vm) ==
  IF desc.type = IREE_VM_REF_TYPE_NULL
  THEN LET filled == [desc EXCEPT !.type_name = type_name,
                                  !.offsetof_counter = "T::offsetof_counter",
                                  !.destroy = "T::DirectDestroy"]
           r == iree_vm_ref_register_type(filled, vm)
       IN  [status |-> r.status, descriptor |-> r.descriptor, vm |-> r.vm, host |-> TRUE]
  ELSE [status |-> "OK", descriptor |-> desc, vm |-> vm, host |-> FALSE]

\* cudnn_module.cpp:197-202
RegisterTypes ==
  /\ ~aborted
  /\ Ops < MaxOps
  /\ LET r == RegisterType(descriptor, "cudnn.tensor", vmTypes)
     IN  /\ descriptor' = r.descriptor
         /\ vmTypes' = r.vm
         /\ regCalls' = Append(regCalls,
              [status |-> r.status, host |-> r.host, vm |-> vmTypes,
               before |-> descriptor, after |-> r.descriptor])
  /\ UNCHANGED <<envVars, moduleVars, stateVars, tensorVars, aborted, vmArgs>>

\* ------------------------------------------------------------ environment

\* the host runtime releases its own reference to a device
\* (iree_hal_device_release); the device is destroyed when the count is 0
HostReleaseDevice(d) ==
  /\ ~aborted
  /\ Ops < MaxOps
  /\ hostHolds[d]
  /\ hostHolds' = [hostHolds EXCEPT ![d] = FALSE]
  /\ deviceRefs' = [deviceRefs EXCEPT ![d] = @ - 1]
  /\ UNCHANGED <<envVars, modules, moduleCalls, stateVars, typeVars, tensorVars, aborted,
                 vmArgs>>

\* the caller (or another library) makes a CUDA context current
MakeCurrent(c) ==
  /\ ~aborted
  /\ c # currentCtx
  /\ currentCtx' = c
  /\ UNCHANGED <<library, moduleVars, stateVars, typeVars, tensorVars, aborted, vmArgs>>


\* ------------------------------------------------------------ CuDNNModule

\* openxla_cudnn_dynamic_symbols_initialize(host_allocator, &syms)
openxla_cudnn_dynamic_symbols_initialize(lib) ==
  IF lib = "present" THEN "OK"
  ELSE IF lib = "missing" THEN "UNAVAILABLE"
  ELSE "NOT_FOUND"

\* results of the native cudnnCreate / cudnnDestroy
CudnnResults == {"CUDNN_STATUS_SUCCESS", "CUDNN_STATUS_INTERNAL_ERROR"}

CreateStateFlow_IgnoresSymbolStatus(symStatus, rc) ==
  IF rc # "CUDNN_STATUS_SUCCESS"
  THEN [status |-> "INTERNAL", create |-> rc, state |-> FALSE]
  ELSE [status |-> "OK", create |-> rc, state |-> TRUE]

CreateStateFlow_IgnoresCreateError(symStatus, rc) ==
  IF symStatus # "OK"
  THEN [status |-> symStatus, create |-> "not_called", state |-> FALSE]
  ELSE [status |-> "OK", create |-> rc, state |-> TRUE]

\* cudnn_module.cpp:150-162, the control flow of CreateState given the status
\* of the symbol load and the result cudnnCreate gives when it is called:
\* the status returned, whether cudnnCreate is called and with what result,
\* and whether a CuDNNModuleState is constructed
CreateStateFlow(symStatus, rc) ==
  IF symStatus # "OK"
  THEN [status |-> symStatus, create |-> "not_called", state |-> FALSE]
  ELSE IF rc # "CUDNN_STATUS_SUCCESS"
  THEN [status |-> "INTERNAL", create |-> rc, state |-> FALSE]
  ELSE [status |-> "OK", create |-> rc, state |-> TRUE]

\* variants of CreateState: handing the module's first handle to every state,
\* storing the current context in the module's cuda_ctx_
CreateStateVariant(m, share, recache) ==
  /\ ~aborted
  /\ m \in LiveModules
  /\ Ops < MaxOps
  /\ \E rc \in CudnnResults :
       LET f == CreateStateFlow(openxla_cudnn_dynamic_symbols_initialize(library), rc)
           made == f.create = "CUDNN_STATUS_SUCCESS"
           reuse == share /\ made /\ Len(cudnn) > 0
           handle == IF reuse THEN 1 ELSE IF made THEN Len(cudnn) + 1 ELSE 0
       IN  /\ cudnn' = IF made /\ ~reuse THEN Append(cudnn, [ctx |-> currentCtx]) ELSE cudnn
           /\ states' = IF f.state
                        THEN Append(states, [module |-> m, handle |-> handle, alive |-> TRUE])
                        ELSE states
           /\ stateCalls' = Append(stateCalls,
                [module |-> m,
                 syms |-> openxla_cudnn_dynamic_symbols_initialize(library),
                 create |-> f.create, current |-> currentCtx, status |-> f.status,
                 state |-> IF f.state THEN Len(states) + 1 ELSE 0])
  /\ modules' = IF recache THEN [modules EXCEPT ![m].cuda_ctx = currentCtx] ELSE modules
  /\ UNCHANGED <<envVars, deviceRefs, hostHolds, moduleCalls, destroyLog, typeVars,
                 tensorVars, aborted, vmArgs>>

CreateState_SharedHandle(m) == CreateStateVariant(m, TRUE, FALSE)
CreateState_RecachesContext(m) == CreateStateVariant(m, FALSE, TRUE)

\* cudnn_module.cpp:147-163 and 59-61. cudnnCreate binds the new handle to the
\* context current on the calling thread; a handle variable cudnnCreate did
\* not set holds no handle (0).
CreateState(m) ==
  /\ ~aborted
  /\ m \in LiveModules
  /\ Ops < MaxOps
  /\ \E rc \in CudnnResults :
       LET f == CreateStateFlow(openxla_cudnn_dynamic_symbols_initialize(library), rc)
           made == f.create = "CUDNN_STATUS_SUCCESS"
           handle == IF made THEN Len(cudnn) + 1 ELSE 0
       IN  /\ cudnn' = IF made THEN Append(cudnn, [ctx |-> currentCtx]) ELSE cudnn
           /\ states' = IF f.state
                        THEN Append(states, [module |-> m, handle |-> handle, alive |-> TRUE])
                        ELSE states
           /\ stateCalls' = Append(stateCalls,
                [module |-> m,
                 syms |-> openxla_cudnn_dynamic_symbols_initialize(library),
                 create |-> f.create, current |-> currentCtx, status |-> f.status,
                 state |-> IF f.state THEN Len(states) + 1 ELSE 0])
  /\ UNCHANGED <<envVars, moduleVars, destroyLog, typeVars, tensorVars, aborted, vmArgs>>

\* cudnn_module.cpp:63-65: CUDNN_STATUS_CHECK_OK aborts the process when
\* cudnnDestroy fails
DestroyState(s) ==
  /\ ~aborted
  /\ s \in LiveStates
  /\ \E rc \in CudnnResults :
       /\ destroyLog' = Append(destroyLog, states[s].handle)
       /\ states' = [states EXCEPT ![s].alive = FALSE]
       /\ aborted' = (rc # "CUDNN_STATUS_SUCCESS")
  /\ UNCHANGED <<envVars, moduleVars, stateCalls, cudnn, typeVars, tensorVars, vmArgs>>

\* ------------------------------------------------------- CuDNNModuleState

\* statuses CuDNNArgTensor::Create returns
NativeOutcomes == {"OK", "INTERNAL"}

\* CuDNNArgTensor::Create(&syms_, dimensions, strides, uid, data_type, alignment)
CuDNNArgTensorCreate(syms, dimensions, strides, uid, data_type, alignment) ==
  [syms |-> syms, dims |-> dimensions, strides |-> strides, uid |-> uid,
   data_type |-> data_type, alignment |-> alignment]

\* a tensor.arg call that returns `status` without reaching the constructor
ReturnError(s, a, status, listCalls) ==
  /\ argCalls' = Append(argCalls,
       [args |-> a, state |-> s, status |-> status, ref |-> 0,
        listCalls |-> listCalls, ctor |-> FALSE])
  /\ UNCHANGED <<tensors, ctorCalls>>

\* a tensor.arg call that reaches CuDNNArgTensor::Create with tensor value t
CallConstructor(s, a, t, listCalls, oob) ==
  \E native \in NativeOutcomes :
    /\ ctorCalls' = Append(ctorCalls, [tensor |-> t, oob |-> oob])
    /\ tensors' = IF native = "OK" THEN Append(tensors, t) ELSE tensors
    /\ argCalls' = Append(argCalls,
         [args |-> a, state |-> s, status |-> native,
          ref |-> IF native = "OK" THEN Len(tensors) + 1 ELSE 0,
          listCalls |-> listCalls, ctor |-> TRUE])

\* the references of the live tensors equal to t
Cached(t) == {r \in 1..Len(tensors) : tensors[r] = t}

CreateTensorArg_Cached(s, a) ==
  /\ ~aborted
  /\ s \in LiveStates
  /\ Ops < MaxOps
  /\ LET dt == ToCudnnDataType(a.dtype)
     IN  IF dt.status # "OK" THEN ReturnError(s, a, dt.status, 0)
         ELSE LET dv == LoadI64Vec(a.dims)
              IN  IF dv.status # "OK" THEN ReturnError(s, a, dv.status, 1 + dv.reads)
                  ELSE LET st == GetRowMajorStrides(dv.value)
                           t == CuDNNArgTensorCreate(s, dv.value, st.strides, a.uid,
                                                     dt.value, a.alignment)
                       IN  IF Cached(t) # {}
                           THEN /\ argCalls' = Append(argCalls,
                                     [args |-> a, state |-> s, status |-> "OK",
                                      ref |-> CHOOSE r \in Cached(t) : TRUE,
                                      listCalls |-> 1 + dv.reads, ctor |-> FALSE])
                                /\ UNCHANGED <<tensors, ctorCalls>>
                           ELSE CallConstructor(s, a, t, 1 + dv.reads, st.oob)
  /\ UNCHANGED <<envVars, moduleVars, stateVars, typeVars, stderr, debugCalls, aborted, vmArgs>>

CreateTensorArg_DimsFirst(s, a) ==
  /\ ~aborted
  /\ s \in LiveStates
  /\ Ops < MaxOps
  /\ LET dv == LoadI64Vec(a.dims)
     IN  IF dv.status # "OK" THEN ReturnError(s, a, dv.status, 1 + dv.reads)
         ELSE LET dt == ToCudnnDataType(a.dtype)
              IN  IF dt.status # "OK" THEN ReturnError(s, a, dt.status, 1 + dv.reads)
                  ELSE LET st == GetRowMajorStrides(dv.value)
                           t == CuDNNArgTensorCreate(s, dv.value, st.strides, a.uid,
                                                     dt.value, a.alignment)
                       IN  CallConstructor(s, a, t, 1 + dv.reads, st.oob)
  /\ UNCHANGED <<envVars, moduleVars, stateVars, typeVars, stderr, debugCalls, aborted, vmArgs>>

\* cudnn_module.cpp:91-99, tensor.arg dispatched on state s with arguments a
CreateTensorArg(s, a) ==
  /\ ~aborted
  /\ s \in LiveStates
  /\ Ops < MaxOps
  /\ LET dt == ToCudnnDataType(a.dtype)
     IN  IF dt.status # "OK" THEN ReturnError(s, a, dt.status, 0)
         ELSE LET dv == LoadI64Vec(a.dims)
              IN  IF dv.status # "OK" THEN ReturnError(s, a, dv.status, 1 + dv.reads)
                  ELSE LET st == GetRowMajorStrides(dv.value)
                           t == CuDNNArgTensorCreate(s, dv.value, st.strides, a.uid,
                                                     dt.value, a.alignment)
                       IN  CallConstructor(s, a, t, 1 + dv.reads, st.oob)
  /\ UNCHANGED <<envVars, moduleVars, stateVars, typeVars, stderr, debugCalls, aborted, vmArgs>>

\* arg->tensor().describe(): one line with the tensor's fields
Describe(t) == [prefix |-> "CuDNNArgTensor: ", dims |-> t.dims, strides |-> t.strides,
                uid |-> t.uid, data_type |-> t.data_type, alignment |-> t.alignment]

PrintTensorDebug_Twice(s, r) ==
  /\ ~aborted
  /\ s \in LiveStates
  /\ r \in 1..Len(tensors)
  /\ Ops < MaxOps
  /\ stderr' = stderr \o <<Describe(tensors[r]), Describe(tensors[r])>>
  /\ debugCalls' = Append(debugCalls, [state |-> s, tensor |-> r, status |-> "OK"])
  /\ UNCHANGED <<envVars, moduleVars, stateVars, typeVars, tensors, argCalls, ctorCalls,
                 aborted, vmArgs>>

\* cudnn_module.cpp:101-107, tensor.debug dispatched on state s with tensor r
PrintTensorDebug(s, r) ==
  /\ ~aborted
  /\ s \in LiveStates
  /\ r \in 1..Len(tensors)
  /\ Ops < MaxOps
  /\ stderr' = Append(stderr, Describe(tensors[r]))
  /\ debugCalls' = Append(debugCalls, [state |-> s, tensor |-> r, status |-> "OK"])
  /\ UNCHANGED <<envVars, moduleVars, stateVars, typeVars, tensors, argCalls, ctorCalls,
                 aborted, vmArgs>>

\* ---------------------------------------------------------- specifications

\* the process before any entry point is called; the device's context is
\* current because the device has just been created
Init ==
  /\ library \in {"present", "missing", "nosymbol"}
  /\ currentCtx = "ctx0"
  /\ vmTypes \in {0, VmTypeSlots}
  /\ deviceRefs = [d \in Devices |-> 1]
  /\ hostHolds = [d \in Devices |-> TRUE]
  /\ modules = <<>>
  /\ moduleCalls = <<>>
  /\ states = <<>>
  /\ stateCalls = <<>>
  /\ cudnn = <<>>
  /\ destroyLog = <<>>
  /\ descriptor = NullDescriptor
  /\ regCalls = <<>>
  /\ tensors = <<>>
  /\ argCalls = <<>>
  /\ ctorCalls = <<>>
  /\ stderr = <<>>
  /\ debugCalls = <<>>
  /\ aborted = FALSE
  /\ vmArgs = NoArgs

Next ==
  \/ \E d \in Devices : Create(d)
  \/ \E m \in 1..Len(modules) : DestroyModule(m)
  \/ RegisterTypes
  \/ \E d \in Devices : HostReleaseDevice(d)
  \/ \E c \in Contexts : MakeCurrent(c)
  \/ \E m \in 1..Len(modules) : CreateState(m)
  \/ \E s \in 1..Len(states) : DestroyState(s)
  \/ \E s \in 1..Len(states), a \in SmallArgs : CreateTensorArg(s, a)
  \/ \E s \in 1..Len(states), r \in 1..Len(tensors) : PrintTensorDebug(s, r)

Spec == Init /\ [][Next]_vars

\* The tensor operations on one module state: the process after create,
\* register_types and one CreateState succeeded, about to run a VM program
\* that calls tensor.arg with the arguments vmArgs.
InitArg ==
  /\ library = "present"
  /\ currentCtx = "ctx0"
  /\ vmTypes = 1
  /\ deviceRefs = [d \in Devices |-> IF d = "cuda0" THEN 2 ELSE 1]
  /\ hostHolds = [d \in Devices |-> TRUE]
  /\ modules = <<[device |-> "cuda0", cuda_ctx |-> "ctx0", alive |-> TRUE]>>
  /\ moduleCalls = <<[device |-> "cuda0", status |-> "OK", out_module |-> 1]>>
  /\ states = <<[module |-> 1, handle |-> 1, alive |-> TRUE]>>
  /\ stateCalls = <<[module |-> 1, syms |-> "OK", create |-> "CUDNN_STATUS_SUCCESS",
                     current |-> "ctx0", status |-> "OK", state |-> 1]>>
  /\ cudnn = <<[ctx |-> "ctx0"]>>
  /\ destroyLog = <<>>
  /\ descriptor = RegisteredDescriptor
  /\ regCalls = <<[status |-> "OK", host |-> TRUE, vm |-> 0, before |-> NullDescriptor,
                  after |-> RegisteredDescriptor]>>
  /\ tensors = <<>>
  /\ argCalls = <<>>
  /\ ctorCalls = <<>>
  /\ stderr = <<>>
  /\ debugCalls = <<>>
  /\ aborted = FALSE
  /\ vmArgs \in Args

NextArg ==
  \/ \E s \in 1..Len(states) : CreateTensorArg(s, vmArgs)
  \/ \E s \in 1..Len(states), r \in 1..Len(tensors) : PrintTensorDebug(s, r)

SpecArg == InitArg /\ [][NextArg]_vars

\* the lifecycle specification reaches the state the tensor specification
\* starts from
ReachesInitArg ==
  /\ library = "present" /\ currentCtx = "ctx0" /\ vmTypes = 1
  /\ deviceRefs = [d \in Devices |-> IF d = "cuda0" THEN 2 ELSE 1]
  /\ hostHolds = [d \in Devices |-> TRUE]
  /\ modules = <<[device |-> "cuda0", cuda_ctx |-> "ctx0", alive |-> TRUE]>>
  /\ moduleCalls = <<[device |-> "cuda0", status |-> "OK", out_module |-> 1]>>
  /\ states = <<[module |-> 1, handle |-> 1, alive |-> TRUE]>>
  /\ stateCalls = <<[module |-> 1, syms |-> "OK", create |-> "CUDNN_STATUS_SUCCESS",
                     current |-> "ctx0", status |-> "OK", state |-> 1]>>
  /\ cudnn = <<[ctx |-> "ctx0"]>>
  /\ destroyLog = <<>>
  /\ descriptor = RegisteredDescriptor
  /\ regCalls = <<[status |-> "OK", host |-> TRUE, vm |-> 0, before |-> NullDescriptor,
                  after |-> RegisteredDescriptor]>>
  /\ tensors = <<>> /\ argCalls = <<>> /\ ctorCalls = <<>>
  /\ stderr = <<>> /\ debugCalls = <<>> /\ aborted = FALSE
NotReachesInitArg == ~ReachesInitArg


\* ------------------------------------------------------------------ claims

ValidDType(dtype) == CUDNN_DATA_FLOAT <= dtype /\ dtype <= CUDNN_DATA_FAST_FLOAT_FOR_FP8
BadIndexes(list) == {i \in 1..Len(list) : ~list[i].ok}
FirstBad(list) == CHOOSE i \in BadIndexes(list) : \A j \in BadIndexes(list) : i <= j
Values(list) == [i \in 1..Len(list) |-> list[i].i64]

\* the row-major rule of the specification: S[last] = 1, S[i] = D[i+1] * S[i+1]
RowMajor(D, S) ==
  /\ Len(S) = Len(D)
  /\ S[Len(D)] = 1
  /\ \A i \in 1..(Len(D) - 1) : S[i] = D[i + 1] * S[i + 1]

\* C1 (as claimed): every stride sequence handed to the native tensor
\* constructor for a non-empty dimension sequence obeys the row-major rule,
\* and dims [2,3,4] are handed over with strides [12,4,1].
C1_StridesAreRowMajor ==
  \A k \in 1..Len(ctorCalls) :
    LET t == ctorCalls[k].tensor
    IN  /\ Len(t.dims) > 0 => RowMajor(t.dims, t.strides)
        /\ t.dims = <<2, 3, 4>> => t.strides = <<12, 4, 1>>

\* C2: a tensor.arg call whose dtype code lies outside
\* [CUDNN_DATA_FLOAT, CUDNN_DATA_FAST_FLOAT_FOR_FP8] returns invalid-argument
\* and no tensor reference, and the native constructor is never invoked,
\* whatever dims, uid and alignment are.
C2_InvalidDTypeRejected ==
  ~ValidDType(vmArgs.dtype) =>
    /\ ctorCalls = <<>>
    /\ tensors = <<>>
    /\ \A k \in 1..Len(argCalls) :
         /\ argCalls[k].status = "INVALID_ARGUMENT"
         /\ argCalls[k].ref = 0
         /\ ~argCalls[k].ctor

C2_Witness ==
  /\ Len(argCalls) > 0
  /\ vmArgs.dtype = CUDNN_DATA_FAST_FLOAT_FOR_FP8 + 1
  /\ BadIndexes(vmArgs.dims) = {}
  /\ argCalls[1].status = "INVALID_ARGUMENT"

\* C3 (as claimed): when the native library cannot be located, every `create`
\* call fails with not-found/unavailable and no Module State is instantiated.
C3_CreateFailsWithoutLibrary ==
  library = "missing" =>
    /\ \A k \in 1..Len(moduleCalls) : moduleCalls[k].status \in {"NOT_FOUND", "UNAVAILABLE"}
    /\ states = <<>>

\* C3 (amended): when the native library cannot be located, `create` does not
\* look for it and succeeds whenever the device's context can be retrieved;
\* it is every CreateState call that fails, with the status of the symbol
\* load, and no Module State is ever instantiated.
C3_CreateStateFailsWithoutLibrary ==
  library = "missing" =>
    /\ \A k \in 1..Len(moduleCalls) :
         moduleCalls[k].status =
           iree_hal_cuda_device_get_context(moduleCalls[k].device).status
    /\ \A k \in 1..Len(stateCalls) :
         /\ stateCalls[k].status # "OK"
         /\ stateCalls[k].status = stateCalls[k].syms
         /\ stateCalls[k].state = 0
    /\ states = <<>>

C3_Witness ==
  /\ library = "missing"
  /\ \E k \in 1..Len(moduleCalls) : moduleCalls[k].status = "OK"
  /\ Len(stateCalls) > 0

\* number of cudnnDestroy calls made on handle h
Destroys(h) == Cardinality({i \in 1..Len(destroyLog) : destroyLog[i] = h})
Owners(h) == {s \in 1..Len(states) : states[s].handle = h}

\* C4: every handle cudnnCreate made is owned by one Module State and is
\* passed to cudnnDestroy exactly once when that state has been destroyed and
\* not at all before; cudnnDestroy is called on created handles only, and a
\* CreateState call whose cudnnCreate failed constructs no state, so nothing
\* is ever destroyed for it.
C4_OneDestroyPerCreatedHandle ==
  /\ \A h \in 1..Len(cudnn) :
       /\ Cardinality(Owners(h)) = 1
       /\ \A s \in Owners(h) : Destroys(h) = IF states[s].alive THEN 0 ELSE 1
  /\ \A i \in 1..Len(destroyLog) : destroyLog[i] \in 1..Len(cudnn)
  /\ \A k \in 1..Len(stateCalls) :
       stateCalls[k].create # "CUDNN_STATUS_SUCCESS" => stateCalls[k].state = 0
  /\ Len(states) = Len(cudnn)

C4_Witness ==
  /\ \E s \in 1..Len(states) : ~states[s].alive /\ Destroys(states[s].handle) = 1
  /\ \E k \in 1..Len(stateCalls) : stateCalls[k].create = "CUDNN_STATUS_INTERNAL_ERROR"

\* C5: after a successful register_types call, every later call succeeds,
\* does not call the host VM's registration, and leaves the descriptor as it
\* was.
C5_RegistrationIdempotent ==
  \A j \in 1..Len(regCalls) : \A k \in 1..Len(regCalls) :
    (j < k /\ regCalls[j].status = "OK") =>
      /\ regCalls[k].status = "OK"
      /\ ~regCalls[k].host
      /\ regCalls[k].after = regCalls[k].before
      /\ regCalls[k].after = regCalls[j].after
      /\ descriptor = regCalls[j].after

C5_Witness ==
  /\ Len(regCalls) >= 2
  /\ regCalls[1].status = "OK"
  /\ regCalls[1].host
  /\ descriptor.type # IREE_VM_REF_TYPE_NULL

\* C6 (as claimed): the native handle of every Module State is bound to the
\* context its Module cached at construction, whichever context is current
\* when CreateState runs.
C6_HandleBoundToModuleContext ==
  \A s \in 1..Len(states) :
    states[s].handle \in 1..Len(cudnn) =>
      cudnn[states[s].handle].ctx = modules[states[s].module].cuda_ctx

\* C7: a CreateState call whose symbol load failed returns the status of the
\* load, does not call cudnnCreate and constructs no Module State.
C7_SymbolFailureAbortsCreateState ==
  /\ \A k \in 1..Len(stateCalls) :
       stateCalls[k].syms # "OK" =>
         /\ stateCalls[k].status = stateCalls[k].syms
         /\ stateCalls[k].create = "not_called"
         /\ stateCalls[k].state = 0
  /\ library # "present" => cudnn = <<>> /\ states = <<>>

C7_Witness ==
  \E k \in 1..Len(stateCalls) : stateCalls[k].syms = "NOT_FOUND"

C9_StridesHaveDimsLength ==
  \A k \in 1..Len(ctorCalls) :
    LET t == ctorCalls[k].tensor
    IN  /\ Len(t.strides) = Len(t.dims)
        /\ ~ctorCalls[k].oob
        /\ Len(t.dims) = 1 => t.strides = <<1>>
        /\ Len(t.dims) = 0 => t.strides = <<>>

C9_Witness ==
  \E k \in 1..Len(ctorCalls) : ctorCalls[k].tensor.dims = <<>>

\* C10: two successful tensor.arg calls on the same Module State with the
\* same (dtype, dims, uid, alignment) both invoke the native constructor and
\* return different tensor references; every call that passed validation
\* made its own constructor call.
C10_NoDeduplication ==
  /\ \A j \in 1..Len(argCalls) : \A k \in 1..Len(argCalls) :
       (/\ j < k
        /\ argCalls[j].args = argCalls[k].args
        /\ argCalls[j].state = argCalls[k].state
        /\ argCalls[j].status = "OK"
        /\ argCalls[k].status = "OK") =>
         /\ argCalls[j].ref # argCalls[k].ref
         /\ argCalls[j].ctor /\ argCalls[k].ctor
         /\ tensors[argCalls[j].ref] = tensors[argCalls[k].ref]
  /\ Len(ctorCalls) = Cardinality({k \in 1..Len(argCalls) : argCalls[k].ctor})
  /\ Len(ctorCalls) =
       Cardinality({k \in 1..Len(argCalls) :
                      ValidDType(argCalls[k].args.dtype)
                      /\ BadIndexes(argCalls[k].args.dims) = {}})

C10_Witness ==
  /\ Len(argCalls) >= 2
  /\ argCalls[1].status = "OK"
  /\ argCalls[2].status = "OK"
  /\ argCalls[1].args = argCalls[2].args


\* C11: a `create` call returns the status of the context query; when the
\* query failed no Module is constructed, the device is not retained and the
\* output module is not written; when it succeeded one new Module holding the
\* queried context is constructed and written to the output.
C11_CreatePropagatesContextFailure ==
  /\ \A k \in 1..Len(moduleCalls) :
       LET c == moduleCalls[k]
           r == iree_hal_cuda_device_get_context(c.device)
       IN  /\ c.status = r.status
           /\ r.status # "OK" => c.out_module = 0
           /\ r.status = "OK" =>
                /\ c.out_module \in 1..Len(modules)
                /\ modules[c.out_module].device = c.device
                /\ modules[c.out_module].cuda_ctx = r.ctx
                /\ \A j \in 1..Len(moduleCalls) :
                     j # k => moduleCalls[j].out_module # c.out_module
  /\ Len(modules) = Cardinality({k \in 1..Len(moduleCalls) : moduleCalls[k].status = "OK"})
  /\ \A d \in Devices :
       iree_hal_cuda_device_get_context(d).status # "OK" =>
         deviceRefs[d] = IF hostHolds[d] THEN 1 ELSE 0

C11_Witness ==
  /\ \E k \in 1..Len(moduleCalls) : moduleCalls[k].status = "INVALID_ARGUMENT"
  /\ \E k \in 1..Len(moduleCalls) : moduleCalls[k].status = "OK"

ModulesOn(d) == {m \in LiveModules : modules[m].device = d}

\* C12: every live Module holds one reference to its device: the device's
\* count is the host's own reference plus one per live Module on it, through
\* every CreateState, tensor.arg and tensor.debug call, so the count of a
\* device with a live Module is never 0, also after the host released its
\* reference.
C12_ModuleRetainsDevice ==
  /\ \A d \in Devices :
       deviceRefs[d] = (IF hostHolds[d] THEN 1 ELSE 0) + Cardinality(ModulesOn(d))
  /\ \A m \in LiveModules : deviceRefs[modules[m].device] >= 1

C12_Witness ==
  /\ \E m \in LiveModules : ~hostHolds[modules[m].device] /\ deviceRefs[modules[m].device] = 1
  /\ Len(stateCalls) > 0
  /\ Len(argCalls) > 0
  /\ Len(debugCalls) > 0

\* C13: a register_types call whose host registration failed returns the
\* host's status and leaves the descriptor's type null, and the call after it
\* calls the host registration again.
C13_RegistrationFailurePropagated ==
  \A k \in 1..Len(regCalls) :
    regCalls[k].status # "OK" =>
      /\ regCalls[k].host
      /\ regCalls[k].status =
           iree_vm_ref_register_type(regCalls[k].before, regCalls[k].vm).status
      /\ regCalls[k].after.type = IREE_VM_REF_TYPE_NULL
      /\ k < Len(regCalls) => regCalls[k + 1].host
      /\ k = Len(regCalls) => descriptor.type = IREE_VM_REF_TYPE_NULL

C13_Witness ==
  /\ Len(regCalls) >= 2
  /\ regCalls[1].status = "RESOURCE_EXHAUSTED"
  /\ regCalls[2].host

\* C14: with a CUDA device and a free slot in the host VM's type table, one
\* `create` and one register_types call, made in either order, both succeed
\* and leave the same state: one Module holding the device's context, the
\* descriptor registered once; what each call sets is what it sets when made
\* alone.
C14_InitOrderIndependent ==
  (/\ Len(moduleCalls) = 1
   /\ Len(regCalls) = 1
   /\ moduleCalls[1].device = "cuda0"
   /\ regCalls[1].vm < VmTypeSlots) =>
     /\ moduleCalls[1] = [device |-> "cuda0", status |-> "OK", out_module |-> 1]
     /\ Len(modules) = 1
     /\ modules[1].device = "cuda0"
     /\ modules[1].cuda_ctx = "ctx0"
     /\ regCalls[1].status = "OK"
     /\ regCalls[1].host
     /\ regCalls[1].before = NullDescriptor
     /\ regCalls[1].after = descriptor
     /\ descriptor = [RegisteredDescriptor EXCEPT !.type = regCalls[1].vm + 1]
     /\ vmTypes = regCalls[1].vm + 1

C14_Witness ==
  /\ Len(moduleCalls) = 1
  /\ Len(regCalls) = 1
  /\ moduleCalls[1].status = "OK"
  /\ regCalls[1].status = "OK"
  /\ Len(modules) = 1

\* C15: a tensor.debug call returns OK, appends exactly one line, the
\* description of its tensor, to stderr, and leaves the tensors, the Module
\* States and the native handles as they were.
C15_DebugPrintsOneLine ==
  [][debugCalls' # debugCalls =>
       /\ Len(debugCalls') = Len(debugCalls) + 1
       /\ debugCalls'[Len(debugCalls')].status = "OK"
       /\ Len(stderr') = Len(stderr) + 1
       /\ SubSeq(stderr', 1, Len(stderr)) = stderr
       /\ stderr'[Len(stderr')] = Describe(tensors[debugCalls'[Len(debugCalls')].tensor])
       /\ tensors' = tensors
       /\ states' = states
       /\ cudnn' = cudnn]_vars

C15_Witness ==
  /\ Len(debugCalls) = 1
  /\ Len(stderr) = 1
  /\ stderr[1].dims = <<2, 3, 4>>

\* C16: tensor.arg validates the dtype, then reads the dims list, then calls
\* the native constructor: a call with an invalid dtype makes no access to the
\* dims list and returns the dtype's invalid-argument status also when the list
\* is malformed, and a call reaches the constructor only with a valid dtype
\* and after reading every element of the list.
C16_ValidationOrder ==
  \A k \in 1..Len(argCalls) :
    LET c == argCalls[k]
    IN  /\ ~ValidDType(c.args.dtype) =>
             c.listCalls = 0 /\ c.status = "INVALID_ARGUMENT" /\ ~c.ctor
        /\ c.ctor =>
             /\ ValidDType(c.args.dtype)
             /\ BadIndexes(c.args.dims) = {}
             /\ c.listCalls = 1 + Len(c.args.dims)
        /\ (ValidDType(c.args.dtype) /\ BadIndexes(c.args.dims) # {}) =>
             c.listCalls = 1 + FirstBad(c.args.dims)

C16_Witness ==
  /\ Len(argCalls) > 0
  /\ ~ValidDType(vmArgs.dtype)
  /\ Len(vmArgs.dims) > 0
  /\ vmArgs.dims[1] = Bad("FAILED_PRECONDITION")
  /\ argCalls[1].listCalls = 0

\* C17: no two live Module States hold the same native handle, the handle of
\* a live Module State has not been passed to cudnnDestroy, and each
\* successful CreateState call made one new handle.
C17_HandlesNotShared ==
  /\ \A s1 \in LiveStates : \A s2 \in LiveStates :
       s1 # s2 => states[s1].handle # states[s2].handle
  /\ \A s \in LiveStates :
       states[s].handle \in 1..Len(cudnn) /\ Destroys(states[s].handle) = 0
  /\ Len(cudnn) = Cardinality({k \in 1..Len(stateCalls) : stateCalls[k].status = "OK"})

C17_Witness ==
  /\ Len(states) = 2
  /\ ~states[1].alive
  /\ states[2].alive
  /\ Destroys(states[1].handle) = 1

\* C18: no step changes the cuda_ctx_ a Module was constructed with, and the
\* context current on the thread changes only by the caller's own step: no
\* entry point or operation of the module switches it.
C18_CachedContextFixed ==
  [][/\ \A m \in 1..Len(modules) : modules'[m].cuda_ctx = modules[m].cuda_ctx
     /\ currentCtx' # currentCtx =>
          UNCHANGED <<library, vmTypes, moduleVars, stateVars, descriptor, regCalls,
                      tensorVars, aborted, vmArgs>>]_vars

C18_Witness ==
  /\ Len(modules) > 0
  /\ modules[1].cuda_ctx = "ctx0"
  /\ currentCtx = "ctx1"
  /\ \E k \in 1..Len(stateCalls) : stateCalls[k].current = "ctx1"
  /\ Len(argCalls) > 0
  /\ Len(destroyLog) > 0

====
